---- MODULE Spec2Model ----
(***************************************************************************)
(* Model of telegram_agent.py: one invocation of main().  The four         *)
(* environment variables, the tool registry returned by list_tools(), the  *)
(* completion result and the outcome of every outbound call are inputs;    *)
(* the program is the sequence validate -> create client -> list tools ->  *)
(* patch each tool -> generate_content -> fallback -> sendMessage, with    *)
(* the top-level "except Exception" handler sending one error notice.      *)
(***************************************************************************)
EXTENDS Integers, Sequences, FiniteSets, TLC

VARIABLES env, pc, registry, original, idx, tools_functions, handed,
          response, final_text, exc, raisedAt, calls, channel, log

vars == <<env, pc, registry, original, idx, tools_functions, handed,
          response, final_text, exc, raisedAt, calls, channel, log>>

(***************************************************************************)
(* Bounds and program constants                                            *)
(***************************************************************************)
\* Largest number of tools the registry returns.
MaxTools == 2

\* Length of the longest exception message and completion text drawn.
LongLen == 4100

\* error_msg[:4000]
Limit == 4000

(***************************************************************************)
(* Values                                                                  *)
(***************************************************************************)
\* Python's None and a present value v: an optional value is a sequence of
\* length 0 or 1.
None == << >>

Some(v) == <<v>>

\* The string made of n copies of the character "x".
RECURSIVE Pad(_)
Pad(n) ==
  IF n = 0 THEN ""
  ELSE IF n % 2 = 1 THEN "x" \o Pad(n - 1)
  ELSE LET h == Pad(n \div 2) IN h \o h

\* Python's s[:n].
Slice(s, n) == IF Len(s) <= n THEN s ELSE SubSeq(s, 1, n)

\* Python truthiness of an optional string: None and "" are falsy.
Truthy(o) == o # None /\ o[1] # ""

Fallback == "I couldn't process that request properly. Please try again."

ErrorPrefix == "Sorry, I encountered an error: "

\* f"Sorry, I encountered an error: {str(e)}"
ErrorMsg(m) == ErrorPrefix \o m

\* The error text sent whole, without the [:4000] slice.
NotifyTextWhole(m) == ErrorMsg(m)

\* The slice one character short.
NotifyTextShort(m) == Slice(ErrorMsg(m), Limit - 1)

\* error_msg[:4000]
NotifyText(m) == Slice(ErrorMsg(m), Limit)

(***************************************************************************)
(* Inputs                                                                  *)
(***************************************************************************)
Required == {"GOOGLE_API_KEY", "TELEGRAM_BOT_TOKEN", "TELEGRAM_CHAT_ID", "TELEGRAM_MESSAGE"}

\* os.getenv gives None for an unset variable, and "" for one set empty.
EnvValues(k) ==
  {None, Some(""),
   Some(CASE k = "GOOGLE_API_KEY" -> "key"
          [] k = "TELEGRAM_BOT_TOKEN" -> "token"
          [] k = "TELEGRAM_CHAT_ID" -> "42"
          [] OTHER -> "What's the weather tomorrow?")}

Envs == {e \in [Required -> {None, Some(""), Some("key"), Some("token"), Some("42"),
                            Some("What's the weather tomorrow?")}] :
           \A k \in Required : e[k] \in EnvValues(k)}

\* A parameter of a tool's callable: its annotation ("absent" when the name
\* is not in __annotations__) and its default ("empty" for
\* inspect.Parameter.empty).
Param(h, d) == [hint |-> h, default |-> d]

UN == Param("absent", "None")

UR == Param("absent", "empty")

TN == Param("int", "None")

TR == Param("int", "empty")

\* What goes wrong when the loop body handles a tool:
\*   "none"      nothing;
\*   "fn"        reading tool.fn raises (line 32);
\*   "signature" inspect.signature(f) raises (line 36);
\*   "name"      inspect.signature(f) raises and reading tool.name raises
\*               in the warning of line 48;
\*   "setattr"   f is a bound method: getattr(f, '__annotations__') is the
\*               dict of the underlying function, and f.__annotations__ =
\*               hints (line 45) raises AttributeError.
Tool(ps, flt) == [params |-> ps, fault |-> flt]

ToolCatalogue ==
  {Tool(ps, "none") : ps \in {<< >>, <<UN>>, <<UR>>, <<TN>>, <<TR>>,
                              <<UN, TR>>, <<TR, UN>>, <<UN, UN>>, <<UR, TN>>,
                              <<TN, TR>>}}
  \cup {Tool(<<UN, TR>>, flt) : flt \in {"fn", "signature", "name", "setattr"}}
  \cup {Tool(<<TN>>, "setattr")}

Registries == UNION {[1..n -> ToolCatalogue] : n \in 0..MaxTools}

\* str(e) of the exceptions the external calls raise: empty, short, one
\* that makes error_msg exactly Limit characters, one more, and a long one.
ExcMsgs == {"", "timeout", Pad(Limit - Len(ErrorPrefix)),
            Pad(Limit - Len(ErrorPrefix) + 1), Pad(LongLen)}

\* response.text: None, empty, an answer, a long answer.
Responses == {None, Some(""), Some("It will be sunny."), Some(Pad(LongLen))}

\* requests.post: a 2xx reply, a 4xx/5xx reply, or a transport exception.
Outcomes == {"ok", "http_error", "exception"}

FnErrorMsg == "tool.fn failed"

NameErrorMsg == "tool.name failed"

HTTPErrorMsg == "400 Client Error: Bad Request for url"

ConnErrorMsg == "Connection aborted."

(***************************************************************************)
(* Initial state: main() is about to run                                   *)
(***************************************************************************)
Init ==
  /\ env \in Envs
  /\ pc = "Validating"
  /\ registry = << >>
  /\ original = << >>
  /\ idx = 0
  /\ tools_functions = << >>
  /\ handed = None
  /\ response = None
  /\ final_text = None
  /\ exc = None
  /\ raisedAt = ""
  /\ calls = << >>
  /\ channel = << >>
  /\ log = << >>

\* The check written as "is not None": an empty value passes.
AllPresentNotNone(e) == \A k \in Required : e[k] # None

\* not all([api_key, bot_token, chat_id, message]) is false
AllPresent(e) == \A k \in Required : Truthy(e[k])

\* An exception raised inside the outer try: control moves to the
\* "except Exception as e" clause of line 82.
Raise(m) ==
  /\ exc' = Some(m)
  /\ raisedAt' = pc
  /\ pc' = "Recovering"

LogEntry(level, event, tool) == [level |-> level, event |-> event, tool |-> tool]

\* Lines 15-24.
Validate ==
  /\ pc = "Validating"
  /\ IF AllPresent(env)
       THEN /\ pc' = "CreateClient"
            /\ log' = Append(log, LogEntry("info", "processing", 0))
       ELSE /\ pc' = "Aborted"
            /\ log' = Append(log, LogEntry("error", "missing", 0))
  /\ UNCHANGED <<env, registry, original, idx, tools_functions, handed,
                 response, final_text, exc, raisedAt, calls, channel>>

\* Line 27: genai.Client(api_key=api_key); the constructor may raise.
CreateClient ==
  /\ pc = "CreateClient"
  /\ \/ /\ pc' = "ListTools"
        /\ UNCHANGED <<exc, raisedAt>>
     \/ \E m \in ExcMsgs : Raise(m)
  /\ UNCHANGED <<env, registry, original, idx, tools_functions, handed,
                 response, final_text, calls, channel, log>>

Call(op, text, mode, outcome) ==
  [op |-> op, text |-> text, parse_mode |-> mode, outcome |-> outcome]

\* Line 31: mcp._tool_manager.list_tools() returns the registry's tools,
\* or raises.  tools_functions = [] is line 30.
ListTools ==
  /\ pc = "ListTools"
  /\ \/ \E reg \in Registries :
          /\ registry' = reg
          /\ original' = reg
          /\ idx' = 1
          /\ tools_functions' = << >>
          /\ calls' = Append(calls, Call("list_tools", "", "", "ok"))
          /\ pc' = "Sanitizing"
          /\ UNCHANGED <<exc, raisedAt>>
     \/ \E m \in ExcMsgs :
          /\ Raise(m)
          /\ calls' = Append(calls, Call("list_tools", "", "", "exception"))
          /\ UNCHANGED <<registry, original, idx, tools_functions>>
  /\ UNCHANGED <<env, handed, response, final_text, channel, log>>

\* The test of line 40 without "param.default is None".
PatchParamUntypedOnly(p) ==
  IF p.hint = "absent" THEN [p EXCEPT !.hint = "str"] ELSE p

\* The test of line 40 without "name not in hints".
PatchParamNoneOnly(p) ==
  IF p.default = "None" THEN [p EXCEPT !.hint = "str"] ELSE p

\* A None default wraps the annotation at hand instead of filling a missing
\* one: Optional[...] around what is there.
PatchParamWrap(p) ==
  IF p.default # "None" THEN p
  ELSE IF p.hint = "absent" THEN [p EXCEPT !.hint = "str"]
  ELSE [p EXCEPT !.hint = "Optional " \o p.hint]

\* Lines 39-43: "if name not in hints and param.default is None:
\* hints[name] = str", for every parameter of the signature, in order.
PatchParam(p) ==
  IF p.hint = "absent" /\ p.default = "None" THEN [p EXCEPT !.hint = "str"] ELSE p

Patch(ps) == [k \in 1..Len(ps) |-> PatchParam(ps[k])]

\* Line 38/43: changed is set when some parameter was given a hint.
Changed(ps) == \E k \in 1..Len(ps) : ps[k].hint = "absent" /\ ps[k].default = "None"

\* Lines 32-50: one iteration of the loop over the registry's tools.
\* hints is the callable's own __annotations__ dict, so line 42 rewrites
\* the registry-owned callable at once, before line 45 runs.
SanitizeTool ==
  /\ pc = "Sanitizing"
  /\ idx <= Len(registry)
  /\ LET t == registry[idx] IN
       CASE t.fault = "fn" ->
              \* line 32, outside the inner try
              /\ Raise(FnErrorMsg)
              /\ UNCHANGED <<registry, idx, tools_functions, log>>
         [] t.fault = "name" ->
              \* line 36 raises, and line 48 raises inside the handler
              /\ Raise(NameErrorMsg)
              /\ UNCHANGED <<registry, idx, tools_functions, log>>
         [] t.fault = "signature" ->
              \* line 36 raises; lines 47-48 log it; line 50 appends f
              /\ log' = Append(log, LogEntry("warning", "could_not_patch", idx))
              /\ tools_functions' = Append(tools_functions, idx)
              /\ idx' = idx + 1
              /\ UNCHANGED <<registry, pc, exc, raisedAt>>
         [] t.fault = "setattr" ->
              \* lines 39-43 rewrite the shared dict; line 45 raises when
              \* changed, and lines 47-48 log it
              /\ registry' = [registry EXCEPT ![idx].params = Patch(t.params)]
              /\ log' = IF Changed(t.params)
                          THEN Append(log, LogEntry("warning", "could_not_patch", idx))
                          ELSE log
              /\ tools_functions' = Append(tools_functions, idx)
              /\ idx' = idx + 1
              /\ UNCHANGED <<pc, exc, raisedAt>>
         [] OTHER ->
              /\ registry' = [registry EXCEPT ![idx].params = Patch(t.params)]
              /\ log' = IF Changed(t.params)
                          THEN Append(log, LogEntry("debug", "patched", idx))
                          ELSE log
              /\ tools_functions' = Append(tools_functions, idx)
              /\ idx' = idx + 1
              /\ UNCHANGED <<pc, exc, raisedAt>>
  /\ UNCHANGED <<env, original, handed, response, final_text, calls, channel>>

\* Lines 31-50 run once more over a registry (a second invocation in the
\* same process): the annotations each callable is left with.  The loop
\* stops at the first tool whose fn or name cannot be read; a tool whose
\* signature cannot be read is left as it is.
SecondPass(reg) ==
  [k \in 1..Len(reg) |->
     IF /\ reg[k].fault \in {"none", "setattr"}
        /\ \A j \in 1..(k - 1) : reg[j].fault \notin {"fn", "name"}
       THEN [reg[k] EXCEPT !.params = Patch(reg[k].params)]
       ELSE reg[k]]

\* The loop left after its first iteration.
LoadedEarly ==
  /\ pc = "Sanitizing"
  /\ idx > 1 \/ idx > Len(registry)
  /\ pc' = "Completing"
  /\ log' = Append(log, LogEntry("info", "loaded", Len(tools_functions)))
  /\ UNCHANGED <<env, registry, original, idx, tools_functions, handed,
                 response, final_text, exc, raisedAt, calls, channel>>

\* Line 52: the loop is over.
Loaded ==
  /\ pc = "Sanitizing"
  /\ idx > Len(registry)
  /\ pc' = "Completing"
  /\ log' = Append(log, LogEntry("info", "loaded", Len(tools_functions)))
  /\ UNCHANGED <<env, registry, original, idx, tools_functions, handed,
                 response, final_text, exc, raisedAt, calls, channel>>

\* The descriptors the completion call sees: tools_functions holds
\* references to the registry's callables.
Descriptors ==
  [k \in 1..Len(tools_functions) |->
     [tool |-> tools_functions[k], params |-> registry[tools_functions[k]].params]]

\* Lines 55-62: client.models.generate_content(...) returns a response or
\* raises.
Complete ==
  /\ pc = "Completing"
  /\ handed' = Some(Descriptors)
  /\ \/ \E r \in Responses :
          /\ response' = Some(r)
          /\ calls' = Append(calls, Call("generate_content", env["TELEGRAM_MESSAGE"][1], "", "ok"))
          /\ pc' = "Finalizing"
          /\ UNCHANGED <<exc, raisedAt>>
     \/ \E m \in ExcMsgs :
          /\ Raise(m)
          /\ calls' = Append(calls, Call("generate_content", env["TELEGRAM_MESSAGE"][1], "", "exception"))
          /\ UNCHANGED response
  /\ UNCHANGED <<env, registry, original, idx, tools_functions, final_text, channel, log>>

\* The fallback applied only to None: an empty text is sent as it is.
FinalTextNoneOnly(r) == IF r # None THEN r[1] ELSE Fallback

\* Lines 64-67: final_text = response.text, replaced when falsy.
FinalText(r) == IF Truthy(r) THEN r[1] ELSE Fallback

\* Lines 64-69.
Finalize ==
  /\ pc = "Finalizing"
  /\ final_text' = Some(FinalText(response[1]))
  /\ pc' = "Sending"
  /\ log' = Append(log, LogEntry("info", "response", 0))
  /\ UNCHANGED <<env, registry, original, idx, tools_functions, handed,
                 response, exc, raisedAt, calls, channel>>

\* The status check left out.
RaisesForStatusNever(o) == FALSE

\* The status check inverted.
RaisesForStatusInverted(o) == o = "ok"

\* A raise after every reply.
RaisesForStatusAlways(o) == TRUE

\* Line 79: res.raise_for_status() raises on a 4xx/5xx reply.
RaisesForStatus(o) == o = "http_error"

\* The log preview of line 69 sent in place of the text.
PrimaryTextPreview(t) == Slice(t, 100)

\* Line 75: the payload's text.
PrimaryText(t) == t

\* Lines 72-80: the primary send.
PrimarySend ==
  /\ pc = "Sending"
  /\ \E o \in Outcomes :
       /\ calls' = Append(calls, Call("post_primary", PrimaryText(final_text[1]), "Markdown", o))
       /\ IF o = "exception"
            THEN /\ Raise(ConnErrorMsg)
                 /\ UNCHANGED <<channel, log>>
            ELSE /\ channel' = IF o = "ok" THEN Append(channel, PrimaryText(final_text[1]))
                               ELSE channel
                 /\ IF RaisesForStatus(o)
                      THEN /\ Raise(HTTPErrorMsg)
                           /\ UNCHANGED log
                      ELSE /\ pc' = "Done"
                           /\ log' = Append(log, LogEntry("info", "sent", 0))
                           /\ UNCHANGED <<exc, raisedAt>>
  /\ UNCHANGED <<env, registry, original, idx, tools_functions, handed,
                 response, final_text>>

\* "except Exception" in place of the bare except, with a re-raise.
AfterNotifyPropagates(o) == IF o = "exception" THEN "Raised" ELSE "Done"

\* A failed notification starting the pipeline again.
AfterNotifyRestarts(o) == IF o = "ok" THEN "Done" ELSE "CreateClient"

\* raise_for_status() on the notification's reply, not caught.
AfterNotifyChecksStatus(o) == IF o = "http_error" THEN "Raised" ELSE "Done"

\* Lines 86-90: the notification's reply is never inspected and the bare
\* "except: pass" drops any exception: main returns.
AfterNotify(o) == "Done"

\* Lines 82-90: the top-level handler.
Recover ==
  /\ pc = "Recovering"
  /\ \E o \in Outcomes :
       /\ calls' = Append(calls, Call("post_notify", NotifyText(exc[1]), "", o))
       /\ channel' = IF o = "ok" THEN Append(channel, NotifyText(exc[1])) ELSE channel
       /\ pc' = AfterNotify(o)
  /\ log' = Append(log, LogEntry("error", "agent_error", 0))
  /\ UNCHANGED <<env, registry, original, idx, tools_functions, handed,
                 response, final_text, exc, raisedAt>>

Next ==
  \/ Validate
  \/ CreateClient
  \/ ListTools
  \/ SanitizeTool
  \/ Loaded
  \/ Complete
  \/ Finalize
  \/ PrimarySend
  \/ Recover

Spec == Init /\ [][Next]_vars

\* A single-threaded process keeps executing until main returns.
LiveSpec == Spec /\ WF_vars(Next)

(***************************************************************************)
(* Vocabulary of the properties                                            *)
(***************************************************************************)
Primaries == SelectSeq(calls, LAMBDA c : c.op = "post_primary")

Notifies == SelectSeq(calls, LAMBDA c : c.op = "post_notify")

Terminal == {"Aborted", "Done"}

PcValues == {"Validating", "Aborted", "CreateClient", "ListTools", "Sanitizing",
             "Completing", "Finalizing", "Sending", "Recovering", "Done"}

\* The steps of Processing: everything in the try before the primary send.
ProcessingSteps == {"CreateClient", "ListTools", "Sanitizing", "Completing", "Finalizing"}

\* The required inputs that are absent or empty.
Missing(e) == {k \in Required : e[k] = None \/ e[k] = Some("")}

\* The tools whose sanitization raised and was caught by the per-tool handler.
Warned == {log[j].tool : j \in {n \in 1..Len(log) : log[n].event = "could_not_patch"}}

\* s starts with prefix p.
StartsWith(s, p) == Len(s) >= Len(p) /\ SubSeq(s, 1, Len(p)) = p

(***************************************************************************)
(* C1: when any of the four required inputs is absent or empty, the        *)
(* invocation makes no call at all (no tool listing, no completion call,   *)
(* no send), delivers nothing, and ends in Aborted.                        *)
(***************************************************************************)
C1_ValidationShortCircuit ==
  Missing(env) # {} =>
    /\ calls = << >>
    /\ channel = << >>
    /\ pc \in {"Validating", "Aborted"}

C1_Witness ==
  /\ pc = "Aborted"
  /\ Missing(env) = {"TELEGRAM_BOT_TOKEN"}
  /\ env["TELEGRAM_BOT_TOKEN"] = Some("")

(***************************************************************************)
(* C2 as stated: whenever an exception was raised during Processing --     *)
(* one that reached the top-level handler, or one raised while sanitizing  *)
(* a tool -- the finished invocation holds exactly one notification send,  *)
(* of at most 4000 characters.                                             *)
(***************************************************************************)
C2_Original ==
  (pc = "Done" /\ (raisedAt \in ProcessingSteps \/ Warned # {})) =>
    /\ Len(Notifies) = 1
    /\ Len(Notifies[1].text) <= Limit

(***************************************************************************)
(* C2 amended: an exception raised during Processing that reaches the      *)
(* top-level handler is followed by exactly one notification send of at    *)
(* most 4000 characters; an invocation in which no exception reached the   *)
(* handler (the per-tool handler caught them all) sends no notification.   *)
(***************************************************************************)
C2_DeliveryGuarantee ==
  pc = "Done" =>
    /\ raisedAt \in ProcessingSteps =>
         /\ Len(Notifies) = 1
         /\ Len(Notifies[1].text) <= Limit
    /\ raisedAt = "" => Notifies = << >>

C2_Witness ==
  /\ pc = "Done"
  /\ raisedAt = "Completing"
  /\ Len(ErrorMsg(exc[1])) > Limit
  /\ Len(Notifies) = 1

(***************************************************************************)
(* C3 as stated: a finished invocation holds exactly one of: Aborted, a    *)
(* primary-send attempt, a recovery-notification attempt.                  *)
(***************************************************************************)
C3_Original ==
  pc \in Terminal =>
    \/ pc = "Aborted" /\ Primaries = << >> /\ Notifies = << >>
    \/ pc # "Aborted" /\ Primaries # << >> /\ Notifies = << >>
    \/ pc # "Aborted" /\ Primaries = << >> /\ Notifies # << >>

(***************************************************************************)
(* C3 amended: a finished invocation holds at least one of the three;      *)
(* Aborted excludes both sends; a primary-send attempt and a notification  *)
(* attempt occur together exactly when the primary send failed.            *)
(***************************************************************************)
C3_Exclusivity ==
  pc \in Terminal =>
    /\ pc = "Aborted" \/ Primaries # << >> \/ Notifies # << >>
    /\ pc = "Aborted" => Primaries = << >> /\ Notifies = << >>
    /\ Primaries # << >> =>
         (Notifies # << >> <=> Primaries[1].outcome # "ok")

C3_Witness ==
  /\ pc = "Done"
  /\ Primaries # << >>
  /\ Notifies # << >>

(***************************************************************************)
(* C4 as stated: every invocation that passes validation delivers a        *)
(* message to the channel.                                                 *)
(***************************************************************************)
C4_Original == pc = "Done" => channel # << >>

(***************************************************************************)
(* C4 amended: every invocation that passes validation attempts a send,    *)
(* and the channel receives the text of the last send attempted -- the     *)
(* model's answer, the fallback text or an error description of at most    *)
(* 4000 characters -- when that send gets a success reply; when it fails   *)
(* (it is then the notification send) the channel receives nothing, as in  *)
(* the missing-input case.                                                 *)
(***************************************************************************)
C4_Delivery ==
  /\ pc = "Aborted" => channel = << >>
  /\ pc = "Done" =>
       /\ calls # << >>
       /\ LET last == calls[Len(calls)] IN
            /\ last.op \in {"post_primary", "post_notify"}
            /\ last.outcome # "ok" => channel = << >> /\ last.op = "post_notify"
            /\ last.outcome = "ok" =>
                 /\ channel = <<last.text>>
                 /\ \/ /\ last.op = "post_primary"
                       /\ response # None
                       /\ IF Truthy(response[1]) THEN last.text = response[1][1]
                                                 ELSE last.text = Fallback
                    \/ /\ last.op = "post_notify"
                       /\ StartsWith(last.text, ErrorPrefix)
                       /\ Len(last.text) <= Limit

C4_Witness ==
  /\ pc = "Done"
  /\ channel = << >>
  /\ Primaries # << >>
  /\ Notifies # << >>

(***************************************************************************)
(* C5: when the completion call returns and its text is None or empty, a   *)
(* primary send is attempted with the fallback string; no primary send     *)
(* carries an empty text; and on this path only the primary send itself    *)
(* can raise.                                                              *)
(***************************************************************************)
C5_FallbackSubstitution ==
  /\ \A j \in 1..Len(Primaries) : Primaries[j].text # ""
  /\ (response # None /\ ~Truthy(response[1])) =>
       /\ pc \in {"Finalizing", "Sending", "Recovering", "Done"}
       /\ pc \in {"Recovering", "Done"} =>
            /\ Len(Primaries) = 1
            /\ Primaries[1].text = Fallback
            /\ raisedAt \in {"", "Sending"}

C5_Witness ==
  /\ pc = "Done"
  /\ response = Some(Some(""))
  /\ Len(Primaries) = 1
  /\ Primaries[1].text = Fallback
  /\ Notifies = << >>

(***************************************************************************)
(* C6: a failed primary send (non-success status or transport exception)   *)
(* is caught by the top-level handler and the invocation ends with exactly *)
(* one notification send attempted.                                        *)
(***************************************************************************)
C6_PrimaryFailureNotified ==
  (Primaries # << >> /\ Primaries[1].outcome # "ok") =>
    /\ raisedAt = "Sending"
    /\ \/ pc = "Recovering" /\ Notifies = << >>
       \/ pc = "Done" /\ Len(Notifies) = 1

C6_Witness ==
  /\ pc = "Done"
  /\ Primaries # << >>
  /\ Primaries[1].outcome = "http_error"
  /\ Len(Notifies) = 1

(***************************************************************************)
(* C7: once the primary send has completed with a success status, no       *)
(* notification send is attempted in that invocation.                      *)
(***************************************************************************)
C7_NoNoticeAfterSuccess ==
  (Primaries # << >> /\ Primaries[1].outcome = "ok") =>
    /\ pc = "Done"
    /\ exc = None
    /\ Notifies = << >>

C7_Witness ==
  /\ pc = "Done"
  /\ Primaries # << >>
  /\ Primaries[1].outcome = "ok"
  /\ channel = <<"It will be sunny.">>

(***************************************************************************)
(* C8: nothing propagates out of main: whatever fails, the invocation      *)
(* never leaves the states of main by an exception, at most one            *)
(* notification send is made, after it main is done whatever its outcome,  *)
(* and every run reaches Aborted or Done.                                  *)
(***************************************************************************)
C8_NothingPropagates ==
  /\ [](/\ pc \in PcValues
        /\ Len(Notifies) <= 1
        /\ Notifies # << >> => pc = "Done")
  /\ <>(pc \in Terminal)

C8_Witness ==
  /\ pc = "Done"
  /\ Primaries # << >>
  /\ Primaries[1].outcome = "exception"
  /\ Notifies # << >>
  /\ Notifies[1].outcome = "exception"

(***************************************************************************)
(* C9 as stated: when sanitizing tool i raised, the completion call is     *)
(* handed all the registry's tools in registry order, and tool i has the   *)
(* parameters it had before sanitization.                                  *)
(***************************************************************************)
C9_FaultIsolation ==
  handed # None =>
    \A i \in Warned :
      /\ Len(handed[1]) = Len(original)
      /\ \A k \in 1..Len(handed[1]) : handed[1][k].tool = k
      /\ handed[1][i].params = original[i].params

(***************************************************************************)
(* C10 as stated: no exception raised while a tool is inspected or         *)
(* rewritten reaches the top-level handler.                                *)
(***************************************************************************)
C10_SanitizerContains == raisedAt # "Sanitizing"

(***************************************************************************)
(* Vocabulary of the sanitizer's properties                                *)
(***************************************************************************)
\* The loop body has run to line 50 for tool i.
Visited(i) == i \in 1..Len(registry) /\ i < idx

\* Parameter p of tool i had no annotation and a None default.
Ambiguous(i, p) ==
  original[i].params[p].hint = "absent" /\ original[i].params[p].default = "None"

\* Parameter p of tool i has been given the annotation str.
Rewritten(i, p) ==
  /\ registry[i].params[p].hint = "str"
  /\ original[i].params[p].hint # "str"

\* Tool i keeps its parameter count, order and defaults, and every
\* annotation except those rewritten to str.
FrameKept(i) ==
  /\ Len(registry[i].params) = Len(original[i].params)
  /\ \A p \in 1..Len(original[i].params) :
       /\ registry[i].params[p].default = original[i].params[p].default
       /\ Rewritten(i, p) \/ registry[i].params[p].hint = original[i].params[p].hint

\* The completion call was handed the callables as the loop left them.
HandedAsLeft ==
  handed # None =>
    \A k \in 1..Len(handed[1]) :
      handed[1][k].params = registry[handed[1][k].tool].params

C12_Idempotence ==
  /\ pc # "Sanitizing" => SecondPass(registry) = registry
  /\ \A i \in 1..Len(registry) :
       Visited(i) => SecondPass(registry)[i] = registry[i]

C12_Witness ==
  /\ pc = "Completing"
  /\ Len(registry) = 2
  /\ registry # original
  /\ \A i \in 1..2 : original[i].fault = "none" /\ Changed(original[i].params)

(***************************************************************************)
(* C13 as stated: the sanitizer never mutates registry-owned objects:      *)
(* every tool of the registry keeps the annotations it had when the        *)
(* invocation started.                                                     *)
(***************************************************************************)
C13_RegistryUntouched == registry = original

(***************************************************************************)
(* C14: a descriptor whose parameters all have an annotation is left as    *)
(* it is, whatever the defaults are, and is handed unchanged.              *)
(***************************************************************************)
FullyTyped(t) == \A p \in 1..Len(t.params) : t.params[p].hint # "absent"

C14_NoOpOnTyped ==
  /\ \A i \in 1..Len(registry) : FullyTyped(original[i]) => registry[i] = original[i]
  /\ handed # None =>
       \A k \in 1..Len(handed[1]) :
         FullyTyped(original[handed[1][k].tool])
           => handed[1][k].params = original[handed[1][k].tool].params

C14_Witness ==
  /\ handed # None
  /\ Len(registry) = 2
  /\ original[1] = Tool(<<TN, TR>>, "none")
  /\ original[2] = Tool(<<TN>>, "setattr")
  /\ Len(handed[1]) = 2

(***************************************************************************)
(* C15: the tool listing, the completion call, the primary send and the    *)
(* notification send are each issued at most once per invocation; once an  *)
(* exception has reached the handler the run is in Recovering or Done, and *)
(* no call follows the notification send.                                  *)
(***************************************************************************)
CallsOf(op) == SelectSeq(calls, LAMBDA c : c.op = op)

C15_NoRetry ==
  /\ \A op \in {"list_tools", "generate_content", "post_primary", "post_notify"} :
       Len(CallsOf(op)) <= 1
  /\ exc # None => pc \in {"Recovering", "Done"}
  /\ Notifies # << >> => calls[Len(calls)].op = "post_notify" /\ pc = "Done"

C15_Witness ==
  /\ pc = "Done"
  /\ Len(calls) = 4
  /\ calls[3].op = "post_primary"
  /\ calls[3].outcome = "http_error"
  /\ calls[4].op = "post_notify"
  /\ calls[4].outcome = "exception"

(***************************************************************************)
(* C16: the notification text is the first 4000 characters of "Sorry, I    *)
(* encountered an error: " followed by the exception's message: it starts  *)
(* with that prefix, is a prefix of the whole error text, and is exactly   *)
(* 4000 characters long when the whole text is longer.                     *)
(***************************************************************************)
C16_NotificationText ==
  \A j \in 1..Len(Notifies) :
    LET text == Notifies[j].text
        full == "Sorry, I encountered an error: " \o exc[1]
    IN /\ StartsWith(text, "Sorry, I encountered an error: ")
       /\ StartsWith(full, text)
       /\ Len(text) = IF Len(full) > 4000 THEN 4000 ELSE Len(full)

C16_Witness ==
  /\ pc = "Done"
  /\ raisedAt = "ListTools"
  /\ Len(exc[1]) = Limit - Len(ErrorPrefix) + 1
  /\ Len(Notifies) = 1
  /\ Len(Notifies[1].text) = Limit

(***************************************************************************)
(* C17: a primary send is attempted only after validation passed, the loop *)
(* handled every tool of the registry in order, and the completion call    *)
(* returned; when the client, the tool listing, the loop or the completion *)
(* call raises, no primary send is attempted; a notification send is       *)
(* attempted only after a step has raised.                                 *)
(***************************************************************************)
C17_Ordering ==
  /\ Primaries # << >> =>
       /\ Missing(env) = {}
       /\ idx = Len(registry) + 1
       /\ tools_functions = [k \in 1..Len(registry) |-> k]
       /\ handed # None
       /\ response # None
       /\ Len(calls) >= 3
       /\ calls[1] = Call("list_tools", "", "", "ok")
       /\ calls[2].op = "generate_content" /\ calls[2].outcome = "ok"
       /\ calls[3].op = "post_primary"
  /\ raisedAt \in {"CreateClient", "ListTools", "Sanitizing", "Completing"}
       => Primaries = << >>
  /\ Notifies # << >> =>
       /\ Missing(env) = {}
       /\ exc # None
       /\ raisedAt \in ProcessingSteps \cup {"Sending"}

C17_Witness ==
  /\ pc = "Done"
  /\ Len(registry) = 2
  /\ Primaries # << >>
  /\ Primaries[1].outcome = "ok"
  /\ Warned = {2}

(***************************************************************************)
(* C18: the primary send carries the whole final text with parse_mode      *)
(* Markdown, and a non-success status on it raises; the notification send  *)
(* carries no parse_mode, and whatever its reply the invocation is done    *)
(* after it with no further call.                                          *)
(***************************************************************************)
C18_SendShapes ==
  /\ \A j \in 1..Len(Primaries) :
       /\ Primaries[j].parse_mode = "Markdown"
       /\ response # None
       /\ Primaries[j].text =
            IF Truthy(response[1]) THEN response[1][1]
            ELSE "I couldn't process that request properly. Please try again."
       /\ Primaries[j].outcome = "http_error" =>
            /\ raisedAt = "Sending"
            /\ pc \in {"Recovering", "Done"}
  /\ \A j \in 1..Len(Notifies) :
       /\ Notifies[j].parse_mode = ""
       /\ pc = "Done"
       /\ calls[Len(calls)] = Notifies[j]

C18_Witness ==
  /\ pc = "Done"
  /\ Primaries # << >>
  /\ Len(Primaries[1].text) = LongLen
  /\ Primaries[1].outcome = "http_error"
  /\ Notifies # << >>
  /\ Notifies[1].outcome = "http_error"

====
